---- MODULE Spec2Model ----
(***************************************************************************)
(* Model of pkg/v1/env/env.go: the client-side wrapper around a remote     *)
(* environment server.  Every remote call, every file-system call and      *)
(* every stream read is an input of the action that issues it: it succeeds *)
(* or fails, and carries a small payload.                                  *)
(*                                                                         *)
(*   Spec        NewLocalServer, then Make on the Server it returned.      *)
(*   SpecEnv     Step, Reset, Results and Close on the Env Make returned.  *)
(*   SpecVideos  Videos, End, Clean and Close on such an Env.              *)
(*   SpecShape   SpaceShape and PotentialsShape on every space of a        *)
(*               bounded set.                                              *)
(***************************************************************************)
EXTENDS Integers, Sequences, FiniteSets, TLC

\* ---------------------------------------------------------------- bounds
\* pool.Retry's budget (a time budget in dockertest), counted in attempts.
MaxAttempts == 3
\* Calls of Server.Make by the client.
MaxMakes == 2
\* Options passed to one Make call, and distinct normalizers.
MaxOpts == 2
MaxNormalizers == 2
\* Distinct remote observations.
MaxObs == 2
\* Episodes and reward values the remote reports.
MaxEpisodes == 2
MaxReward == 2
\* Video references per Results response, chunks per video stream.
MaxVideos == 2
MaxChunks == 1
\* Shape functions: largest dimension, longest dimension list, largest N.
MaxDim == 3
MaxRank == 2
MaxN == 3

VARIABLES
    pc,           \* where the client is
    attempts,     \* invocations of the closure given to pool.Retry
    openConns,    \* connections dialled and not closed (by attempt number)
    sphereClient, \* the connection sphereClient wraps; 0 is nil
    infoHist,     \* history: the outcome of each attempt
    makeCalls,    \* calls of Make so far
    nextId,       \* next environment id the remote hands out
    remoteEnvs,   \* environment instances that exist on the server
    recording,    \* instances on which recording was started
    madeId,       \* id CreateEnv returned to the current/last Make; 0 none
    makeOpts,     \* the options given to the current/last Make
    makeRet,      \* what the last Make returned: "none", "env", "error"
    envId,        \* Env.Id of the handle; 0 before Make succeeds
    Normalizer,   \* Env.Normalizer; 0 is nil
    applied,      \* history: options applied to the handle, in order
    VideoPaths,   \* Env.VideoPaths
    fs,           \* local files: path -> "partial" | "complete"
    caller,       \* who runs Videos: "user" or "End"
    vDir,         \* Videos: path argument after defaulting
    vTodo,        \* Videos: video references still to download
    vRefs,        \* Videos: number of video references in results.Videos
    vFile,        \* Videos: fp of the file being written; <<>> none
    vChunks,      \* Videos: chunks written to vFile
    videoPaths,   \* Videos: the local videoPaths slice
    ret,          \* what the last Env operation returned
    lastVideos,   \* history: the last successful Videos return
    ended,        \* End: "no", "running", "returned", "fatal"
    rpcLog,       \* history: remote calls issued by the current End run
    endOpen,      \* history: the instance existed when End started
    space,        \* SpecShape: the space under resolution
    spaceRes,     \* SpecShape: outcome of SpaceShape(space)
    potRes        \* SpecShape: outcome of PotentialsShape(space)

bootVars == <<attempts, openConns, sphereClient, infoHist>>
makeVars == <<makeCalls, nextId, madeId, makeOpts, makeRet, envId, Normalizer, applied>>
remoteVars == <<remoteEnvs, recording>>
videoVars == <<caller, vDir, vTodo, vRefs, vFile, vChunks, videoPaths>>
envVars == <<VideoPaths, fs, ret, lastVideos, ended, rpcLog, endOpen>>
shapeVars == <<space, spaceRes, potRes>>
vars == <<pc, bootVars, makeVars, remoteVars, videoVars, envVars, shapeVars>>

\* ------------------------------------------------------------ values
NoErr == ""
NoObs == <<>>
NoFile == <<>>
NoAvg == [kind |-> "none", num |-> 0, den |-> 0]
NoRet == [op |-> "none", err |-> NoErr, reports |-> NoFile, remote |-> NoObs,
          obs |-> NoObs, normed |-> FALSE, episodes |-> <<>>, avg |-> NoAvg,
          paths |-> <<>>, partial |-> NoFile]

Normalizers == 1..MaxNormalizers
RemoteObs == 1..MaxObs
Rewards == 0..MaxReward

RECURSIVE SeqsUpTo(_, _)
SeqsUpTo(S, n) ==
    IF n = 0 THEN {<<>>}
    ELSE LET shorter == SeqsUpTo(S, n - 1)
         IN shorter \cup {Append(s, x) : s \in {t \in shorter : Len(t) = n - 1}, x \in S}

RECURSIVE Sum(_)
Sum(s) == IF s = <<>> THEN 0 ELSE Head(s) + Sum(Tail(s))

Range(s) == {s[i] : i \in DOMAIN s}

\* ------------------------------------------------ NewLocalServer (48-83)
\* backoff.Retry behind pool.Retry: after a failed attempt the loop goes on
\* while the budget lasts and otherwise returns the attempt's error, which
\* NewLocalServer wraps and returns (lines 75-77).
AfterFailedAttempt(n) == IF n >= MaxAttempts THEN "connect_error" ELSE "retry"

\* Lines 50-58: dockertest.NewPool and pool.Run; either may fail.
Launch ==
    /\ pc = "start"
    /\ \E poolOk \in BOOLEAN, runOk \in BOOLEAN :
         pc' = IF poolOk /\ runOk THEN "retry" ELSE "launch_error"
    /\ UNCHANGED <<bootVars, makeVars, remoteVars, videoVars, envVars, shapeVars>>

\* Lines 65-71: one invocation of the closure, up to the dial.  A failed dial
\* returns its error (69); a successful one wraps conn in sphereClient (71).
Dial ==
    /\ pc = "retry"
    /\ attempts' = attempts + 1
    /\ \E ok \in BOOLEAN :
         IF ok
         THEN /\ openConns' = openConns \cup {attempts'}
              /\ sphereClient' = attempts'
              /\ infoHist' = infoHist
              /\ pc' = "info"
         ELSE /\ infoHist' = Append(infoHist, "dialfail")
              /\ pc' = AfterFailedAttempt(attempts')
              /\ UNCHANGED <<openConns, sphereClient>>
    /\ UNCHANGED <<makeVars, remoteVars, videoVars, envVars, shapeVars>>

\* Lines 72-74: the Info call, then resp.ServerName is read before err is
\* looked at.  A client that returns a nil response with its error (as the
\* generated gRPC client does) makes line 73 dereference nil: the goroutine
\* panics.  The closure never closes conn.
Info ==
    /\ pc = "info"
    /\ \E ok \in BOOLEAN, respNil \in BOOLEAN :
         /\ ok => ~respNil
         /\ infoHist' = Append(infoHist, IF ok THEN "ok" ELSE "infofail")
         /\ pc' = IF respNil THEN "panic"
                  ELSE IF ok THEN "server"
                  ELSE AfterFailedAttempt(attempts)
    /\ UNCHANGED <<attempts, openConns, sphereClient>>
    /\ UNCHANGED <<makeVars, remoteVars, videoVars, envVars, shapeVars>>

\* ------------------------------------------------------ Server.Make (102-132)
\* WithNormalizer (127-132): the option sets e.Normalizer.  normalizer.Init(e)
\* belongs to the pluggable Normalizer and is taken not to touch the handle.
WithNormalizer(e, n) ==
    [e EXCEPT !.Normalizer = n, !.applied = Append(e.applied, n)]

\* Lines 120-122: the options are applied in the order given.
RECURSIVE ApplyOpts(_, _)
ApplyOpts(e, opts) ==
    IF opts = <<>> THEN e
    ELSE ApplyOpts(WithNormalizer(e, Head(opts)), Tail(opts))

\* Lines 105-110: CreateEnv.  On an error Make returns it (107).
MakeCreateEnv ==
    /\ pc = "server"
    /\ makeCalls < MaxMakes
    /\ makeCalls' = makeCalls + 1
    /\ \E opts \in SeqsUpTo(Normalizers, MaxOpts), ok \in BOOLEAN :
         /\ makeOpts' = opts
         /\ IF ok
            THEN /\ madeId' = nextId
                 /\ nextId' = nextId + 1
                 /\ remoteEnvs' = remoteEnvs \cup {nextId}
                 /\ makeRet' = "none"
                 /\ pc' = "make_record"
            ELSE /\ madeId' = 0
                 /\ makeRet' = "error"
                 /\ pc' = "server"
                 /\ UNCHANGED <<nextId, remoteEnvs>>
    /\ UNCHANGED <<envId, Normalizer, applied, recording>>
    /\ UNCHANGED <<bootVars, videoVars, envVars, shapeVars>>

\* Lines 111-123: StartRecordEnv.  On an error Make returns it (113) and the
\* instance CreateEnv made is left as it is; otherwise the handle is built,
\* the options are applied and the handle is returned.
MakeStartRecord ==
    /\ pc = "make_record"
    /\ \E ok \in BOOLEAN :
         IF ok
         THEN LET e == ApplyOpts([Normalizer |-> 0, applied |-> <<>>], makeOpts)
              IN /\ recording' = recording \cup {madeId}
                 /\ envId' = madeId
                 /\ Normalizer' = e.Normalizer
                 /\ applied' = e.applied
                 /\ makeRet' = "env"
                 /\ pc' = "idle"
         ELSE /\ makeRet' = "error"
              /\ pc' = "server"
              /\ UNCHANGED <<recording, envId, Normalizer, applied>>
    /\ UNCHANGED <<makeCalls, nextId, madeId, makeOpts, remoteEnvs>>
    /\ UNCHANGED <<bootVars, videoVars, envVars, shapeVars>>

\* ------------------------------------------------------ observations
\* resp.Observation.Dense() (156, 180): the remote observation as a tensor.
\* A tensor is the pair <<normalizer that produced it (0: none), remote value>>.
Dense(o) == <<0, o>>

\* Normalizer.Norm: the pluggable transform, applied by normalizer n to t.
Norm(n, t) == <<n, t[2]>>

\* Lines 156-160: the observation Step returns.
StepObservation(normalizer, t) ==
    IF normalizer # 0 THEN Norm(normalizer, t) ELSE t

\* Lines 180-184: Reset assigns the normalized tensor to the named result
\* `observation` (182) and then returns t (184).
ResetObservation(normalizer, t) ==
    LET observation == IF normalizer # 0 THEN Norm(normalizer, t) ELSE NoObs
    IN t

\* Lines 150-161.  Reward and Done are passed through and are not modelled.
Step ==
    /\ pc = "idle"
    /\ \E ok \in BOOLEAN, o \in RemoteObs :
         ret' = IF ok
                THEN [NoRet EXCEPT !.op = "Step", !.remote = Dense(o),
                                   !.obs = StepObservation(Normalizer, Dense(o)),
                                   !.normed = (Normalizer # 0)]
                ELSE [NoRet EXCEPT !.op = "Step", !.err = "StepEnv"]
    /\ UNCHANGED <<pc, VideoPaths, fs, lastVideos, ended, rpcLog, endOpen>>
    /\ UNCHANGED <<bootVars, makeVars, remoteVars, videoVars, shapeVars>>

\* Lines 174-185.
Reset ==
    /\ pc = "idle"
    /\ \E ok \in BOOLEAN, o \in RemoteObs :
         ret' = IF ok
                THEN [NoRet EXCEPT !.op = "Reset", !.remote = Dense(o),
                                   !.obs = ResetObservation(Normalizer, Dense(o)),
                                   !.normed = (Normalizer # 0)]
                ELSE [NoRet EXCEPT !.op = "Reset", !.err = "ResetEnv"]
    /\ UNCHANGED <<pc, VideoPaths, fs, lastVideos, ended, rpcLog, endOpen>>
    /\ UNCHANGED <<bootVars, makeVars, remoteVars, videoVars, shapeVars>>

\* Lines 188-196: DeleteEnv removes the instance when it succeeds.
Close ==
    /\ pc = "idle"
    /\ \E ok \in BOOLEAN :
         /\ remoteEnvs' = IF ok THEN remoteEnvs \ {envId} ELSE remoteEnvs
         /\ recording' = IF ok THEN recording \ {envId} ELSE recording
         /\ ret' = [NoRet EXCEPT !.op = "Close",
                                 !.err = IF ok THEN NoErr ELSE "DeleteEnv"]
    /\ UNCHANGED <<pc, VideoPaths, fs, lastVideos, ended, rpcLog, endOpen>>
    /\ UNCHANGED <<bootVars, makeVars, videoVars, shapeVars>>

\* ---------------------------------------------------------- Results (211-228)
\* float32 division (221) never traps: 0/0 is NaN and x/0 an infinity.  A
\* finite quotient is kept as the pair cumulative/count; rewards are small
\* integers, so the float32 sum (217-220) is exact.
FDiv(a, b) ==
    IF b # 0 THEN [kind |-> "num", num |-> a, den |-> b]
    ELSE IF a = 0 THEN [kind |-> "NaN", num |-> 0, den |-> 0]
    ELSE [kind |-> "Inf", num |-> a, den |-> 0]

\* Lines 217-221.
AverageReward(episodes) == FDiv(Sum(episodes), Len(episodes))

EpisodeResults == SeqsUpTo(Rewards, MaxEpisodes)

\* resp.Videos (224): the video references in map-iteration order, by
\* EpisodeId, each episode referenced at most once.
VideoRefs ==
    {v \in SeqsUpTo(1..MaxVideos, MaxVideos) : Cardinality(Range(v)) = Len(v)}

Results ==
    /\ pc = "idle"
    /\ \E ok \in BOOLEAN, episodes \in EpisodeResults :
         ret' = IF ok
                THEN [NoRet EXCEPT !.op = "Results", !.episodes = episodes,
                                   !.avg = AverageReward(episodes)]
                ELSE [NoRet EXCEPT !.op = "Results", !.err = "Results"]
    /\ UNCHANGED <<pc, VideoPaths, fs, lastVideos, ended, rpcLog, endOpen>>
    /\ UNCHANGED <<bootVars, makeVars, remoteVars, videoVars, shapeVars>>

\* ----------------------------------------------------------- Videos (242-285)
\* Lines 243-245: the default directory is named by the environment id.
PathOrDefault(path) == IF path = "" THEN "results" ELSE path

\* Line 257: the file is named by directory, environment id and episode id.
Fp(dir, id, ep) == <<dir, id, ep>>

UserDirs == {""}
WithFile(files, fp, status) ==
    [p \in DOMAIN files \cup {fp} |-> IF p = fp THEN status ELSE files[p]]
WithoutFile(files, fp) == [p \in DOMAIN files \ {fp} |-> files[p]]

\* The remote calls of an End run are logged.
Logged(who, call) == IF who = "End" THEN Append(rpcLog, call) ELSE rpcLog

\* Videos' locals end with the call.
LocalsDropped ==
    /\ caller' = "user"
    /\ vDir' = ""
    /\ vTodo' = <<>>
    /\ vRefs' = 0
    /\ vFile' = NoFile
    /\ vChunks' = 0
    /\ videoPaths' = <<>>

\* A return of (nil, err) from Videos: to the caller, or into End's
\* log.Fatal (299-301), which ends the process.  `reports` is the local file
\* the error value names: an *os.PathError names its file, an RPC error none.
VideosFail(who, err, reports) ==
    /\ ret' = [NoRet EXCEPT !.op = "Videos", !.err = err, !.reports = reports,
                            !.partial = vFile]
    /\ pc' = IF who = "End" THEN "exited" ELSE "idle"
    /\ ended' = IF who = "End" THEN "fatal" ELSE ended
    /\ LocalsDropped
    /\ UNCHANGED <<VideoPaths, lastVideos>>

\* Lines 243-251: the path default, the Results call, the empty videoPaths.
VideosBegin(path, who) ==
    /\ rpcLog' = Logged(who, "Results")
    /\ \E ok \in BOOLEAN, refs \in VideoRefs :
         IF ok
         THEN /\ caller' = who
              /\ vDir' = PathOrDefault(path)
              /\ vTodo' = refs
              /\ vRefs' = Len(refs)
              /\ videoPaths' = <<>>
              /\ vFile' = NoFile
              /\ vChunks' = 0
              /\ ret' = NoRet
              /\ pc' = "videos_loop"
              /\ UNCHANGED <<VideoPaths, lastVideos, ended>>
         ELSE VideosFail(who, "Results", NoFile)
    /\ UNCHANGED <<fs, endOpen, bootVars, makeVars, remoteVars, shapeVars>>

Videos ==
    /\ pc = "idle"
    /\ \E path \in UserDirs : VideosBegin(path, "user")

\* Lines 252-262: the next video reference: GetVideo, then os.Create, which
\* makes the file or truncates the one that is there.
VideosOpen ==
    /\ pc = "videos_loop"
    /\ vTodo # <<>>
    /\ rpcLog' = Logged(caller, "GetVideo")
    /\ LET fp == Fp(vDir, envId, Head(vTodo))
       IN \E getOk \in BOOLEAN, createOk \in BOOLEAN :
            IF ~getOk
            THEN VideosFail(caller, "GetVideo", NoFile) /\ UNCHANGED fs
            ELSE IF ~createOk
            THEN VideosFail(caller, "Create", fp) /\ UNCHANGED fs
            ELSE /\ fs' = WithFile(fs, fp, "partial")
                 /\ vFile' = fp
                 /\ vChunks' = 0
                 /\ pc' = "videos_recv"
                 /\ UNCHANGED <<caller, vDir, vTodo, vRefs, videoPaths>>
                 /\ UNCHANGED <<ret, ended, VideoPaths, lastVideos>>
    /\ UNCHANGED <<endOpen, bootVars, makeVars, remoteVars, shapeVars>>

\* Lines 265, 276-279: Recv delivers a chunk and f.Write appends it, or fails.
VideosChunk ==
    /\ pc = "videos_recv"
    /\ vChunks < MaxChunks
    /\ \E writeOk \in BOOLEAN :
         IF writeOk
         THEN /\ vChunks' = vChunks + 1
              /\ UNCHANGED <<caller, vDir, vTodo, vRefs, vFile, videoPaths>>
              /\ UNCHANGED <<pc, ret, ended, VideoPaths, lastVideos>>
         ELSE VideosFail(caller, "Write", vFile)
    /\ UNCHANGED <<fs, rpcLog>>
    /\ UNCHANGED <<endOpen, bootVars, makeVars, remoteVars, shapeVars>>

\* Lines 265, 273-275: Recv fails with an error that is not io.EOF; the
\* stream's error is returned as it is, and the file stays as written.
VideosRecvError ==
    /\ pc = "videos_recv"
    /\ VideosFail(caller, "Recv", NoFile)
    /\ UNCHANGED <<fs, rpcLog>>
    /\ UNCHANGED <<endOpen, bootVars, makeVars, remoteVars, shapeVars>>

\* VideosEOF appending to e.VideoPaths itself instead of the local slice.
VideosEOFPublishing ==
    /\ pc = "videos_recv"
    /\ fs' = WithFile(fs, vFile, "complete")
    /\ \E closeOk \in BOOLEAN :
         IF closeOk
         THEN /\ videoPaths' = Append(videoPaths, vFile)
              /\ VideoPaths' = Append(videoPaths, vFile)
              /\ vTodo' = Tail(vTodo)
              /\ vFile' = NoFile
              /\ vChunks' = 0
              /\ pc' = "videos_loop"
              /\ UNCHANGED <<caller, vDir, vRefs>>
              /\ UNCHANGED <<ret, ended, lastVideos>>
         ELSE VideosFail(caller, "CloseSend", NoFile)
    /\ UNCHANGED rpcLog
    /\ UNCHANGED <<endOpen, bootVars, makeVars, remoteVars, shapeVars>>

\* Lines 265-272, 281: Recv returns io.EOF, CloseSend, and the path is
\* appended to the local videoPaths.
VideosEOF ==
    /\ pc = "videos_recv"
    /\ fs' = WithFile(fs, vFile, "complete")
    /\ \E closeOk \in BOOLEAN :
         IF closeOk
         THEN /\ videoPaths' = Append(videoPaths, vFile)
              /\ vTodo' = Tail(vTodo)
              /\ vFile' = NoFile
              /\ vChunks' = 0
              /\ pc' = "videos_loop"
              /\ UNCHANGED <<caller, vDir, vRefs>>
              /\ UNCHANGED <<ret, ended, VideoPaths, lastVideos>>
         ELSE VideosFail(caller, "CloseSend", NoFile)
    /\ UNCHANGED rpcLog
    /\ UNCHANGED <<endOpen, bootVars, makeVars, remoteVars, shapeVars>>

\* Lines 252, 283-284: no reference is left; e.VideoPaths is set and the
\* paths are returned (to the caller, or to End at line 298).
VideosReturn ==
    /\ pc = "videos_loop"
    /\ vTodo = <<>>
    /\ VideoPaths' = videoPaths
    /\ ret' = [NoRet EXCEPT !.op = "Videos", !.paths = videoPaths]
    /\ lastVideos' = [ok |-> TRUE, paths |-> videoPaths, refs |-> vRefs]
    /\ pc' = IF caller = "End" THEN "end_close" ELSE "idle"
    /\ LocalsDropped
    /\ UNCHANGED <<fs, ended, rpcLog>>
    /\ UNCHANGED <<endOpen, bootVars, makeVars, remoteVars, shapeVars>>

\* -------------------------------------------------------------- End (289-307)
\* The client calls this teardown helper at most once, as its last remote
\* operation on the handle: once End has returned the instance is deleted, and
\* only the local Clean follows.
\* Lines 290-293: PrintResults calls Results; an error ends the process.
EndPrintResults ==
    /\ pc = "idle"
    /\ ended = "no"
    /\ endOpen' = (envId \in remoteEnvs)
    /\ rpcLog' = <<"Results">>
    /\ ret' = NoRet
    /\ \E ok \in BOOLEAN :
         /\ pc' = IF ok THEN "end_tempdir" ELSE "exited"
         /\ ended' = IF ok THEN "running" ELSE "fatal"
    /\ UNCHANGED <<VideoPaths, fs, lastVideos>>
    /\ UNCHANGED <<bootVars, makeVars, remoteVars, videoVars, shapeVars>>

\* Lines 294-297: ioutil.TempDir; an error ends the process.
EndTempDir ==
    /\ pc = "end_tempdir"
    /\ \E ok \in BOOLEAN :
         /\ pc' = IF ok THEN "end_videos" ELSE "exited"
         /\ ended' = IF ok THEN ended ELSE "fatal"
    /\ UNCHANGED <<VideoPaths, fs, ret, lastVideos, rpcLog, endOpen>>
    /\ UNCHANGED <<bootVars, makeVars, remoteVars, videoVars, shapeVars>>

\* Line 298: Videos(dir) on the fresh temporary directory.
EndVideos ==
    /\ pc = "end_videos"
    /\ VideosBegin("tmp", "End")

\* Lines 303-306: Close; an error ends the process.
EndClose ==
    /\ pc = "end_close"
    /\ rpcLog' = Append(rpcLog, "DeleteEnv")
    /\ \E ok \in BOOLEAN :
         /\ remoteEnvs' = IF ok THEN remoteEnvs \ {envId} ELSE remoteEnvs
         /\ recording' = IF ok THEN recording \ {envId} ELSE recording
         /\ pc' = IF ok THEN "ended" ELSE "exited"
         /\ ended' = IF ok THEN "returned" ELSE "fatal"
    /\ UNCHANGED <<VideoPaths, fs, ret, lastVideos, endOpen>>
    /\ UNCHANGED <<bootVars, makeVars, videoVars, shapeVars>>

\* ------------------------------------------------------------ Clean (325-334)
\* os.Remove on each path of e.VideoPaths in turn; the first error (a file
\* that is not there, or a failure of the i-th removal, i = failAt) ends the
\* process through log.Fatal.  e.VideoPaths itself is left as it is.
RECURSIVE RemoveAll(_, _, _, _)
RemoveAll(paths, files, i, failAt) ==
    IF i > Len(paths) THEN [fs |-> files, fatal |-> FALSE]
    ELSE IF i = failAt \/ paths[i] \notin DOMAIN files
    THEN [fs |-> files, fatal |-> TRUE]
    ELSE RemoveAll(paths, WithoutFile(files, paths[i]), i + 1, failAt)

Clean ==
    /\ pc \in {"idle", "ended"}
    /\ \E failAt \in 0..Len(VideoPaths) :
         LET r == RemoveAll(VideoPaths, fs, 1, failAt)
         IN /\ fs' = r.fs
            /\ pc' = IF r.fatal THEN "exited" ELSE pc
    /\ ret' = [NoRet EXCEPT !.op = "Clean"]
    /\ UNCHANGED <<VideoPaths, lastVideos, ended, rpcLog, endOpen>>
    /\ UNCHANGED <<bootVars, makeVars, remoteVars, videoVars, shapeVars>>

\* ------------------------------------------- SpaceShape, PotentialsShape
\* A *sphere.Space by the variant of its Info: a box with its declared shape,
\* a discrete space with its cardinality N, a multi-discrete space with the
\* sizes of its sub-spaces, a struct space, or no recognised variant.
Dims == SeqsUpTo(1..MaxDim, MaxRank)
Spaces ==
    {[variant |-> "box", dims |-> d, n |-> 0] : d \in Dims}
    \cup {[variant |-> "discrete", dims |-> <<>>, n |-> k] : k \in 0..MaxN}
    \cup {[variant |-> "multidiscrete", dims |-> d, n |-> 0] : d \in Dims}
    \cup {[variant |-> v, dims |-> <<>>, n |-> 0] : v \in {"struct", "unknown"}}

\* common.Int32SliceToInt: each int32 converted to int.
Int32SliceToInt(s) == [i \in DOMAIN s |-> s[i]]

\* logger.Fatalf logs and ends the process: the function does not return.
Fatal(msg) == [kind |-> "fatal", shape |-> <<>>, msg |-> msg]
Returned(shape) ==
    IF Len(shape) = 0 THEN Fatal("space had no shape")
    ELSE [kind |-> "returned", shape |-> shape, msg |-> ""]

\* Lines 348-366.
SpaceShape(sp) ==
    CASE sp.variant = "box" -> Returned(Int32SliceToInt(sp.dims))
      [] sp.variant = "discrete" -> Returned(<<1>>)
      [] sp.variant = "multidiscrete" -> Returned(<<Len(sp.dims)>>)
      [] sp.variant = "struct" -> Fatal("struct space not supported")
      [] OTHER -> Fatal("unknown action space type")

\* PotentialsShape with the discrete case of SpaceShape (354) left in place.
PotentialsShapeDiscreteAsOne(sp) ==
    CASE sp.variant = "box" -> Returned(Int32SliceToInt(sp.dims))
      [] sp.variant = "discrete" -> Returned(<<1>>)
      [] sp.variant = "multidiscrete" -> Returned(Int32SliceToInt(sp.dims))
      [] sp.variant = "struct" -> Fatal("struct space not supported")
      [] OTHER -> Fatal("unknown action space type")

\* Lines 369-387.
PotentialsShape(sp) ==
    CASE sp.variant = "box" -> Returned(Int32SliceToInt(sp.dims))
      [] sp.variant = "discrete" -> Returned(<<sp.n>>)
      [] sp.variant = "multidiscrete" -> Returned(Int32SliceToInt(sp.dims))
      [] sp.variant = "struct" -> Fatal("struct space not supported")
      [] OTHER -> Fatal("unknown action space type")

NotCalled == [kind |-> "none", shape |-> <<>>, msg |-> ""]

CallSpaceShape ==
    /\ spaceRes = NotCalled
    /\ spaceRes' = SpaceShape(space)
    /\ UNCHANGED <<space, potRes>>
    /\ UNCHANGED <<pc, bootVars, makeVars, remoteVars, videoVars, envVars>>

CallPotentialsShape ==
    /\ potRes = NotCalled
    /\ potRes' = PotentialsShape(space)
    /\ UNCHANGED <<space, spaceRes>>
    /\ UNCHANGED <<pc, bootVars, makeVars, remoteVars, videoVars, envVars>>

\* ------------------------------------------------------- specifications
InitClient ==
    /\ pc = "start"
    /\ attempts = 0
    /\ openConns = {}
    /\ sphereClient = 0
    /\ infoHist = <<>>
    /\ makeCalls = 0
    /\ nextId = 1
    /\ remoteEnvs = {}
    /\ recording = {}
    /\ madeId = 0
    /\ makeOpts = <<>>
    /\ makeRet = "none"
    /\ envId = 0
    /\ Normalizer = 0
    /\ applied = <<>>
    /\ VideoPaths = <<>>
    /\ fs = <<>>
    /\ caller = "user"
    /\ vDir = ""
    /\ vTodo = <<>>
    /\ vRefs = 0
    /\ vFile = NoFile
    /\ vChunks = 0
    /\ videoPaths = <<>>
    /\ ret = NoRet
    /\ lastVideos = [ok |-> FALSE, paths |-> <<>>, refs |-> 0]
    /\ ended = "no"
    /\ rpcLog = <<>>
    /\ endOpen = FALSE

Init ==
    /\ InitClient
    /\ space = [variant |-> "unknown", dims |-> <<>>, n |-> 0]
    /\ spaceRes = NotCalled
    /\ potRes = NotCalled

\* NewLocalServer, then Make on the Server it returned.
Next ==
    \/ Launch
    \/ Dial
    \/ Info
    \/ MakeCreateEnv
    \/ MakeStartRecord

Spec == Init /\ [][Next]_vars

\* Step, Reset, Results and Close, from the state in which Make returned the
\* Env: the first attempt connected, and Make was given no option or one.
InitEnv ==
    /\ pc = "idle"
    /\ attempts = 1
    /\ openConns = {1}
    /\ sphereClient = 1
    /\ infoHist = <<"ok">>
    /\ makeCalls = 1
    /\ nextId = 2
    /\ remoteEnvs = {1}
    /\ recording = {1}
    /\ madeId = 1
    /\ makeOpts \in SeqsUpTo(Normalizers, 1)
    /\ makeRet = "env"
    /\ envId = 1
    /\ Normalizer = ApplyOpts([Normalizer |-> 0, applied |-> <<>>], makeOpts).Normalizer
    /\ applied = makeOpts
    /\ VideoPaths = <<>>
    /\ fs = <<>>
    /\ caller = "user"
    /\ vDir = ""
    /\ vTodo = <<>>
    /\ vRefs = 0
    /\ vFile = NoFile
    /\ vChunks = 0
    /\ videoPaths = <<>>
    /\ ret = NoRet
    /\ lastVideos = [ok |-> FALSE, paths |-> <<>>, refs |-> 0]
    /\ ended = "no"
    /\ rpcLog = <<>>
    /\ endOpen = FALSE
    /\ space = [variant |-> "unknown", dims |-> <<>>, n |-> 0]
    /\ spaceRes = NotCalled
    /\ potRes = NotCalled

NextEnv ==
    \/ Step
    \/ Reset
    \/ Results
    \/ Close

SpecEnv == InitEnv /\ [][NextEnv]_vars

\* Videos, End and Clean, with Close, on a handle made with no option.  Step,
\* Reset and Results change nothing but ret and are left to SpecEnv.
InitVideos ==
    /\ InitEnv
    /\ makeOpts = <<>>

NextVideos ==
    \/ Videos
    \/ VideosOpen
    \/ VideosChunk
    \/ VideosRecvError
    \/ VideosEOF
    \/ VideosReturn
    \/ EndPrintResults
    \/ EndTempDir
    \/ EndVideos
    \/ EndClose
    \/ Clean
    \/ Close

SpecVideos == InitVideos /\ [][NextVideos]_vars

\* The shape functions, applied to every space of the bounded set.
InitShape ==
    /\ InitClient
    /\ space \in Spaces
    /\ spaceRes = NotCalled
    /\ potRes = NotCalled

NextShape ==
    \/ CallSpaceShape
    \/ CallPotentialsShape

SpecShape == InitShape /\ [][NextShape]_vars

\* ================================================================ claims
ServerReturned == pc \in {"server", "make_record", "idle"}

\* C1: in the bootstrap retry loop, when the liveness call first succeeds on
\* the Nth attempt the loop succeeds there after exactly N connection attempts
\* and NewLocalServer returns a Server; when it never succeeds the loop ends
\* with an error once the budget is used up; a failed liveness call ends the
\* run in no other way.
C1_RetryLoopOutcome ==
    /\ pc # "panic"
    /\ ServerReturned =>
         /\ Len(infoHist) = attempts
         /\ infoHist[attempts] = "ok"
         /\ \A i \in 1..(attempts - 1) : infoHist[i] # "ok"
    /\ pc = "connect_error" =>
         /\ attempts = MaxAttempts
         /\ "ok" \notin Range(infoHist)

C3_ObservationNormalized ==
    ret.op \in {"Step", "Reset"} =>
        IF ret.err = NoErr
        THEN ret.obs = (IF Normalizer # 0 THEN <<Normalizer, ret.remote[2]>>
                        ELSE ret.remote)
        ELSE ret.obs = NoObs /\ ~ret.normed

\* C4: Results with zero episodes returns an error or an aggregate whose
\* AverageReward is zero, never one that is the quotient 0/0; with one or
\* more episodes AverageReward is the reward sum over the episode count.
C4_AverageRewardDefined ==
    ret.op = "Results" =>
        \/ ret.err # NoErr
        \/ /\ Len(ret.episodes) = 0
           /\ ret.avg.kind = "num"
           /\ ret.avg.num = 0
        \/ /\ Len(ret.episodes) > 0
           /\ ret.avg.kind = "num"
           /\ ret.avg.num = Sum(ret.episodes)
           /\ ret.avg.den = Len(ret.episodes)

SupportedVariants == {"box", "discrete", "multidiscrete"}

ShapeResolved(r) ==
    r.kind # "none" =>
        IF space.variant \in SupportedVariants
        THEN r.kind = "returned" /\ r.shape # <<>>
        ELSE r.kind = "UnsupportedSpaceError"

\* C5: SpaceShape and PotentialsShape return a non-empty dimension sequence
\* for every box, discrete and multi-discrete space, and an UnsupportedSpace
\* error for a struct or unrecognised space; they never return an empty
\* sequence and never end the process.
C5_ShapeResolutionTotal ==
    /\ ShapeResolved(spaceRes)
    /\ ShapeResolved(potRes)
    /\ spaceRes.kind # "fatal"
    /\ potRes.kind # "fatal"

BothCalled == spaceRes.kind # "none" /\ potRes.kind # "none"

\* C6 as stated: the two functions differ only on discrete spaces, [1]
\* against [N]; on every other space they have the same outcome.
C6_OnlyDiscreteDiffers ==
    BothCalled =>
        IF space.variant = "discrete"
        THEN /\ spaceRes.kind = "returned" /\ spaceRes.shape = <<1>>
             /\ potRes.kind = "returned" /\ potRes.shape = <<space.n>>
        ELSE spaceRes = potRes

\* C6 as amended: the two functions differ on discrete and on multi-discrete
\* spaces.  For a discrete space of cardinality N, SpaceShape returns [1] and
\* PotentialsShape [N]; for a multi-discrete space, SpaceShape returns the
\* number of sub-spaces as its one dimension and PotentialsShape the list of
\* their sizes (ending the process when there is none); on box, struct and
\* unrecognised spaces they have the same outcome.
C6_DiscreteAndMultiDiscreteDiffer ==
    BothCalled =>
        CASE space.variant = "discrete" ->
               /\ spaceRes.kind = "returned" /\ spaceRes.shape = <<1>>
               /\ potRes.kind = "returned" /\ potRes.shape = <<space.n>>
          [] space.variant = "multidiscrete" ->
               /\ spaceRes.kind = "returned"
               /\ spaceRes.shape = <<Len(space.dims)>>
               /\ IF space.dims = <<>>
                  THEN potRes.kind = "fatal"
                  ELSE potRes.kind = "returned" /\ potRes.shape = space.dims
          [] OTHER -> spaceRes = potRes

\* Both functions were applied to a multi-discrete space with two sub-spaces
\* and returned different shapes.
C6_Witness ==
    /\ BothCalled
    /\ space.variant = "multidiscrete"
    /\ Len(space.dims) = 2
    /\ spaceRes.shape # potRes.shape

C7_State ==
    /\ VideoPaths = (IF lastVideos.ok THEN lastVideos.paths ELSE <<>>)
    /\ (ret.op = "Videos" /\ ret.err = NoErr) =>
         /\ ret.paths = VideoPaths
         /\ Len(ret.paths) = lastVideos.refs
         /\ \A p \in Range(ret.paths) : p \in DOMAIN fs /\ fs[p] = "complete"

C7_Step ==
    VideoPaths' # VideoPaths =>
        /\ ret'.op = "Videos"
        /\ ret'.err = NoErr
        /\ VideoPaths' = ret'.paths

\* C7: VideoPaths is non-empty only after a Videos call returned successfully
\* and equals the list the most recent such call returned, one path per video
\* reference, each downloaded to end-of-stream when the call returned; no
\* other step, and no step of a Videos call that fails, changes VideoPaths.
C7_VideoPathsFromLastSuccess == []C7_State /\ [][C7_Step]_vars

\* A Videos call failed in mid-stream after an earlier call had returned two
\* paths, which VideoPaths still holds.
C7_Witness ==
    /\ ret.op = "Videos"
    /\ ret.err = "Recv"
    /\ lastVideos.ok
    /\ Len(VideoPaths) = 2

\* C8: when Videos fails because the stream returns a non-EOF error after the
\* file was created, on return the partly written file is gone or the error
\* reports its path.
C8_PartialFileHandled ==
    (ret.op = "Videos" /\ ret.err = "Recv") =>
        \/ ret.partial \notin DOMAIN fs
        \/ ret.reports = ret.partial

RpcRank(call) ==
    CASE call = "Results" -> 1
      [] call = "GetVideo" -> 2
      [] call = "DeleteEnv" -> 3

\* C9: End issues Results, then the video downloads, then DeleteEnv, and every
\* run of End that starts on an open environment issues DeleteEnv, also when
\* Results, the temporary directory or a download fails.
C9_EndClosesEnvironment ==
    /\ \A i, j \in DOMAIN rpcLog : i < j => RpcRank(rpcLog[i]) <= RpcRank(rpcLog[j])
    /\ (ended \in {"returned", "fatal"} /\ endOpen) => "DeleteEnv" \in Range(rpcLog)

\* C10: when Make returns an error, no instance created by that call remains
\* on the server; when it returns an Env, the instance exists, recording was
\* started on it and every option was applied in the order given.
C10_MakeAllOrNothing ==
    /\ makeRet = "error" => madeId \notin remoteEnvs
    /\ makeRet = "env" =>
         /\ envId \in remoteEnvs
         /\ envId \in recording
         /\ applied = makeOpts
         /\ Normalizer = (IF makeOpts = <<>> THEN 0 ELSE makeOpts[Len(makeOpts)])

====
